---- MODULE Spec2Model ----
(***************************************************************************)
(* Model of class_metrics_v6.py: the per-class metric extractor            *)
(* (extract_class_metrics), the history miner (get_class_git_stats), the   *)
(* dependency-graph reduction (compute_fan_in_out), the CSV export and     *)
(* the driver main().                                                       *)
(*                                                                         *)
(* Numbers with decimals are kept as scaled integers: tcc in thousandths   *)
(* (round(.., 3)), nlc in hundredths (round(.., 2)).                       *)
(* The CBO column (a count of bare identifiers) is not modelled: no        *)
(* property below reads it and it feeds no other column.                   *)
(***************************************************************************)
EXTENDS Integers, Sequences, FiniteSets, TLC

VARIABLES
    \* ---- main() ----
    argv,          \* sys.argv
    files,         \* the .py files get_py_files finds, in discovery order (parse results)
    pc,            \* position of main()
    repo_path,     \* local of main: "unbound" or the value of argv[2]
    OUTPUT_FILE,   \* local of main: "unbound" or the value of argv[3]
    fi,            \* index of the file the outer loop of main is at
    classes,       \* records of the current file still to be mined
    results,       \* main's list `results`
    lastQuery,     \* <<q>> for the most recent history query q, <<>> before the first
    pyreverseRuns, \* number of times pyreverse was started
    graphFailed,   \* whether pyreverse failed or the .dot file could not be read
    fan_data,      \* main's fan_data (empty until compute_fan_in_out returns)
    usage,         \* whether the usage line was printed
    header,        \* whether the table header was printed
    console,       \* the table rows printed so far
    csv,           \* the CSV file: whether it exists, and the rows written
    error,         \* the uncaught exception that ended the run ("none" if none)
    exitStatus,    \* <<n>> once the process has ended with status n, <<>> before
    \* ---- extract_class_metrics on one file ----
    xpc,           \* "pending" before the call, "returned" after
    xfile,         \* the parse result of the file
    class_metrics, \* the returned list
    \* ---- get_class_git_stats on one query ----
    gpc,           \* "pending" before the call, then "returned" or "raised"
    query,         \* what the git subprocess does
    stats,         \* the returned dict
    \* ---- compute_fan_in_out and the join ----
    jpc,           \* "pending" before the join, "joined" after
    G,             \* the graph read_dot returns
    joinName,      \* the class name of the row being joined
    joined         \* the fan columns of the console row and of the CSV row

mainVars == <<argv, files, pc, repo_path, OUTPUT_FILE, fi, classes, results, lastQuery,
              pyreverseRuns, graphFailed, fan_data, usage, header, console, csv, error, exitStatus>>
extractVars == <<xpc, xfile, class_metrics>>
gitVars == <<gpc, query, stats>>
fanVars == <<jpc, G, joinName, joined>>
vars == <<mainVars, extractVars, gitVars, fanVars>>

(***************************************************************************)
(* Bounds                                                                   *)
(***************************************************************************)
MaxBody == 3      \* statements in a class body (extractor specification)
MaxLines == 3     \* lines of history text (history specification)
MaxNodes == 3     \* nodes of the dependency graph (graph specification)
MaxEdges == 3     \* edges of the dependency graph (graph specification)
MaxFiles == 2     \* files in the repository (driver specification)

(***************************************************************************)
(* Generic helpers                                                          *)
(***************************************************************************)
Idx(n) == [i \in 1..n |-> i]

Max(a, b) == IF a >= b THEN a ELSE b

SeqsUpTo(S, n) == UNION {[1..k -> S] : k \in 0..n}

\* Python's round(num / den, d) with scale = 10^d, as an integer number of
\* 1/scale units. A quotient that is not half-way between two multiples of
\* 1/scale goes to the nearest one; an exact half goes to the even neighbour
\* (round-half-even on the binary value, exact when den is a power of two;
\* no other tie arises for the numerators and denominators explored here).
PyRound(num, den, scale) ==
    LET twice == 2 * scale * num
        q == twice \div (2 * den)
        r == twice % (2 * den)
    IN  IF r < den THEN q
        ELSE IF r > den THEN q + 1
        ELSE IF q % 2 = 0 THEN q ELSE q + 1

(***************************************************************************)
(* Syntax trees.  A parsed file is a sequence of nodes; node i has a kind,  *)
(* a name, the index of its parent (0 = the Module node, always smaller    *)
(* than i, siblings in source order) and `attrs`, the names a such that an *)
(* Attribute node self.a sits in the node's own statements (not inside a   *)
(* nested ClassDef/FunctionDef child, which is a node of its own).         *)
(***************************************************************************)
\* ast.parse raises SyntaxError (no tree), or returns the tree
SyntaxError == [parsed |-> FALSE, tree |-> <<>>]

Parsed(tree) == [parsed |-> TRUE, tree |-> tree]

Node(kind, name, parent, attrs) ==
    [kind |-> kind, name |-> name, parent |-> parent, attrs |-> attrs]

\* ast.iter_child_nodes: the children of node p in source order
Children(ast, p) == SelectSeq(Idx(Len(ast)), LAMBDA i : ast[i].parent = p)

RECURSIVE WalkFrom(_, _, _)
\* ast.walk: todo = deque([node]); popleft, extend with the children, yield
WalkFrom(ast, todo, out) ==
    IF todo = <<>> THEN out
    ELSE WalkFrom(ast, Tail(todo) \o Children(ast, Head(todo)), Append(out, Head(todo)))

Walk(ast, root) == WalkFrom(ast, <<root>>, <<>>)

\* line 68: the ClassDef nodes in the order ast.walk(tree) yields them
ClassNodes(ast) == SelectSeq(Walk(ast, 0), LAMBDA i : i > 0 /\ ast[i].kind = "ClassDef")

\* line 69: methods = [n for n in node.body if isinstance(n, ast.FunctionDef)]
Methods(ast, c) == SelectSeq(Children(ast, c), LAMBDA i : ast[i].kind = "FunctionDef")

\* lines 74-77 for one method: the self attributes met while walking it
WalkedAttrs(ast, m) == UNION {ast[Walk(ast, m)[k]].attrs : k \in 1..Len(Walk(ast, m))}

\* attributes[method_name].add(attr) for every attr of `found`, on a
\* defaultdict(set) kept as a sequence of entries in key insertion order:
\* the key comes into being at the first add, so nothing is added and no key
\* is made when `found` is empty.
DictAdd(dict, name, found) ==
    IF found = {} THEN dict
    ELSE IF \E k \in 1..Len(dict) : dict[k].name = name
         THEN [k \in 1..Len(dict) |->
                  IF dict[k].name = name
                  THEN [dict[k] EXCEPT !.attrs = @ \cup found]
                  ELSE dict[k]]
         ELSE Append(dict, [name |-> name, attrs |-> found])

RECURSIVE CollectAttributes(_, _, _)
\* lines 70-77: the loop over methods
CollectAttributes(ast, methods, dict) ==
    IF methods = <<>> THEN dict
    ELSE CollectAttributes(ast, Tail(methods),
             DictAdd(dict, ast[Head(methods)].name, WalkedAttrs(ast, Head(methods))))

\* the index pairs i < j of the two nested range loops (lines 83-84, 98-99)
IndexPairs(n) == {p \in (1..n) \X (1..n) : p[1] < p[2]}

\* lines 80-93
Lcom(dict) ==
    LET shared == Cardinality({p \in IndexPairs(Len(dict)) :
                                  dict[p[1]].attrs \cap dict[p[2]].attrs # {}})
        no_shared == Cardinality({p \in IndexPairs(Len(dict)) :
                                  dict[p[1]].attrs \cap dict[p[2]].attrs = {}})
        lcom == no_shared - shared
    IN  IF lcom < 0 THEN 0 ELSE lcom

\* the convention of line 105 turned around: 0.0 for a class without pairs
TccValue_zeroWithoutPairs(connected, total) ==
    IF total > 0 THEN PyRound(connected, total, 1000) ELSE 0

\* line 105, in thousandths
TccValue(connected, total) ==
    IF total > 0 THEN PyRound(connected, total, 1000) ELSE 1000

\* lines 96-105
Tcc(dict) ==
    LET total == Cardinality(IndexPairs(Len(dict)))
        connected == Cardinality({p \in IndexPairs(Len(dict)) :
                                  dict[p[1]].attrs \cap dict[p[2]].attrs # {}})
    IN  TccValue(connected, total)

\* lines 69-121 for the ClassDef node c of the file at `path`
ClassRecord(ast, path, c) ==
    LET methods == Methods(ast, c)
        attributes == CollectAttributes(ast, methods, <<>>)
    IN  [filename |-> path,
         class |-> ast[c].name,
         loc |-> Len(Children(ast, c)),
         methods |-> Len(methods),
         lcom |-> Lcom(attributes),
         tcc |-> Tcc(attributes)]

\* extract_class_metrics(file_path, repo_path)
ExtractClassMetrics(file, path) ==
    IF ~file.parsed THEN <<>>
    ELSE [k \in 1..Len(ClassNodes(file.tree)) |->
             ClassRecord(file.tree, path, ClassNodes(file.tree)[k])]

(***************************************************************************)
(* History text.  The captured output of git is a sequence of lines, a     *)
(* line a sequence of tokens: "commit" and "Author:" stand for those       *)
(* character runs, "+", "-" and " " for single characters, every other     *)
(* token for a run of characters holding none of these.                    *)
(***************************************************************************)
StartsWith(line, prefix) ==
    /\ Len(line) >= Len(prefix)
    /\ SubSeq(line, 1, Len(prefix)) = prefix

RECURSIVE Count(_, _)
\* str.count(word) within one line
Count(line, word) ==
    IF line = <<>> THEN 0
    ELSE (IF Head(line) = word THEN 1 ELSE 0) + Count(Tail(line), word)

RECURSIVE CountAll(_, _)
\* line 142: log_output.count("commit") over the whole text
CountAll(text, word) ==
    IF text = <<>> THEN 0
    ELSE Count(Head(text), word) + CountAll(Tail(text), word)

RECURSIVE LStrip(_)
LStrip(s) == IF s # <<>> /\ Head(s) = " " THEN LStrip(Tail(s)) ELSE s

RECURSIVE RStrip(_)
RStrip(s) ==
    IF s # <<>> /\ s[Len(s)] = " " THEN RStrip(SubSeq(s, 1, Len(s) - 1)) ELSE s

\* str.strip()
Strip(s) == RStrip(LStrip(s))

\* line 149: line.split(":", 1)[1].strip() of a line that starts with "Author:"
AuthorOf(line) == Strip(Tail(line))

\* line 150 without its second test: the '+++' file header counts as added
IsAddedLine_countsHeader(line) == StartsWith(line, <<"+">>)

\* line 150
IsAddedLine(line) == StartsWith(line, <<"+">>) /\ ~StartsWith(line, <<"+", "+", "+">>)

\* line 152
IsDeletedLine(line) == StartsWith(line, <<"-">>) /\ ~StartsWith(line, <<"-", "-", "-">>)

RECURSIVE ScanLines(_, _)
\* lines 147-153: the if / elif / elif chain over log_output.splitlines()
ScanLines(lines, acc) ==
    IF lines = <<>> THEN acc
    ELSE LET line == Head(lines)
         IN  ScanLines(Tail(lines),
                 IF StartsWith(line, <<"Author:">>)
                 THEN [acc EXCEPT !.authors = @ \cup {AuthorOf(line)}]
                 ELSE IF IsAddedLine(line)
                 THEN [acc EXCEPT !.lines_added = @ + 1]
                 ELSE IF IsDeletedLine(line)
                 THEN [acc EXCEPT !.lines_deleted = @ + 1]
                 ELSE acc)

\* line 155, in hundredths
Nlc(total_lines_changed, changes) ==
    IF changes > 0 THEN PyRound(total_lines_changed, changes, 100) ELSE 0

\* lines 134-140
ZeroStats ==
    [changes |-> 0, lines_added |-> 0, lines_deleted |-> 0, authors |-> {}, nlc |-> 0]

\* lines 142-163
ParseLog(log_output) ==
    LET changes == CountAll(log_output, "commit")
        acc == ScanLines(log_output, [lines_added |-> 0, lines_deleted |-> 0, authors |-> {}])
    IN  [changes |-> changes,
         lines_added |-> acc.lines_added,
         lines_deleted |-> acc.lines_deleted,
         authors |-> acc.authors,
         nlc |-> Nlc(acc.lines_added + acc.lines_deleted, changes)]

(***************************************************************************)
(* A history query is what the subprocess does: whether the executable     *)
(* could be started at all, its exit status and its captured output.       *)
(* subprocess.check_output raises FileNotFoundError when the executable    *)
(* cannot be started and CalledProcessError on a non-zero exit status.     *)
(***************************************************************************)
Query(started, returncode, output) ==
    [started |-> started, returncode |-> returncode, output |-> output]

\* lines 127-132: the exception check_output raises, "none" if it returns
CheckOutputRaises(q) ==
    IF ~q.started THEN "FileNotFoundError"
    ELSE IF q.returncode # 0 THEN "CalledProcessError"
    ELSE "none"

\* line 133: the only exception the try statement catches
Caught(exc) == exc = "CalledProcessError"

\* get_class_git_stats: the exception that leaves the function, "none" if it returns
GitStatsRaises(q) ==
    IF CheckOutputRaises(q) # "none" /\ ~Caught(CheckOutputRaises(q))
    THEN CheckOutputRaises(q)
    ELSE "none"

\* get_class_git_stats: the dict returned (when it returns)
GetClassGitStats(q) ==
    IF CheckOutputRaises(q) # "none" THEN ZeroStats ELSE ParseLog(q.output)

(***************************************************************************)
(* Dependency graph.  G.nodes is a sequence of distinct node identifiers   *)
(* in insertion order, an identifier being quoted or not and made of       *)
(* dot-separated segments; G.edges is a set of pairs of node positions.    *)
(***************************************************************************)
GraphNode(quoted, segs) == [quoted |-> quoted, segs |-> segs]

\* line 171 with [0] for [-1]: the first dotted segment
CleanName_firstSegment(node) == node.segs[1]

\* line 171: node.strip('"').split('.')[-1]
CleanName(node) == node.segs[Len(node.segs)]

\* line 172: G.predecessors(node)
Predecessors(g, v) == {u \in 1..Len(g.nodes) : <<u, v>> \in g.edges}

\* line 173: G.successors(node)
Successors(g, v) == {w \in 1..Len(g.nodes) : <<v, w>> \in g.edges}

RECURSIVE FanLoop(_, _, _)
\* lines 170-174: fan_data[clean_name] = {...} for the nodes from position v on
FanLoop(g, v, fd) ==
    IF v > Len(g.nodes) THEN fd
    ELSE LET clean_name == CleanName(g.nodes[v])
             entry == [fan_in |-> Cardinality(Predecessors(g, v)),
                       fan_out |-> Cardinality(Successors(g, v))]
         IN  FanLoop(g, v + 1,
                 [n \in (DOMAIN fd) \cup {clean_name} |->
                     IF n = clean_name THEN entry ELSE fd[n]])

\* compute_fan_in_out
ComputeFanInOut(g) == FanLoop(g, 1, <<>>)

\* fan_data.get(cls, {}).get(key, 0)
FanGet(fd, cls) ==
    IF cls \in DOMAIN fd THEN fd[cls] ELSE [fan_in |-> 0, fan_out |-> 0]

\* lines 185-186: the fan columns of a CSV row
CsvFan(fd, cls) == [fan_in |-> FanGet(fd, cls).fan_in, fan_out |-> FanGet(fd, cls).fan_out]

\* lines 239-240: the fan columns of a console row
ConsoleFan(fd, cls) == [fan_in |-> FanGet(fd, cls).fan_in, fan_out |-> FanGet(fd, cls).fan_out]

(***************************************************************************)
(* The driver main()                                                        *)
(***************************************************************************)
NoError == [exc |-> "none", at |-> "none"]

NoCsv == [exists |-> FALSE, rows |-> <<>>]

Raised(exc, at) == [exc |-> exc, at |-> at]

\* line 225: cls.update(stats)
Update(cls, st) ==
    [filename |-> cls.filename, class |-> cls.class, loc |-> cls.loc,
     methods |-> cls.methods, lcom |-> cls.lcom, tcc |-> cls.tcc,
     changes |-> st.changes, lines_added |-> st.lines_added,
     lines_deleted |-> st.lines_deleted, authors |-> st.authors, nlc |-> st.nlc]

\* line 226 with insert(0, cls) for append(cls)
AppendResult_atFront(list, cls) == <<cls>> \o list

\* line 226: results.append(cls)
AppendResult(list, cls) == Append(list, cls)

\* the format {:>5.2f} of a value kept in thousandths, as hundredths (the
\* half-way cases 0.125, 0.375, ... are exact in binary and go to the even digit)
Format2f(thousandths) == PyRound(thousandths, 10, 1)

\* line 241: one printed table row (tcc to two decimals, nlc already has two)
ConsoleRow(r, fd) ==
    [class |-> r.class, loc |-> r.loc, methods |-> r.methods, lcom |-> r.lcom,
     tcc |-> Format2f(r.tcc), changes |-> r.changes, lines_added |-> r.lines_added,
     lines_deleted |-> r.lines_deleted, nlc |-> r.nlc,
     authors |-> Cardinality(r.authors),
     fan_in |-> ConsoleFan(fd, r.class).fan_in,
     fan_out |-> ConsoleFan(fd, r.class).fan_out,
     filename |-> r.filename]

\* lines 187-202: one CSV row
CsvRow(r, fd) ==
    [class |-> r.class, filename |-> r.filename, loc |-> r.loc, methods |-> r.methods,
     lcom |-> r.lcom, tcc |-> r.tcc, changes |-> r.changes,
     lines_added |-> r.lines_added, lines_deleted |-> r.lines_deleted, nlc |-> r.nlc,
     authors |-> Cardinality(r.authors),
     fan_in |-> CsvFan(fd, r.class).fan_in,
     fan_out |-> CsvFan(fd, r.class).fan_out]

\* lines 181-202: the file export_to_csv leaves behind
ExportToCsv(list, fd) == [k \in 1..Len(list) |-> CsvRow(list[k], fd)]

(***************************************************************************)
(* Inputs of the driver specification                                       *)
(***************************************************************************)
\* class Foo: def f(self): self.x; class Bar: pass
\*            def g(self): self.x, self.y
\* class Baz: def h(self): pass
NestedFile ==
    Parsed(<< Node("ClassDef", "Foo", 0, {}),
       Node("FunctionDef", "f", 1, {"x"}),
       Node("ClassDef", "Bar", 2, {}),
       Node("FunctionDef", "g", 1, {"x", "y"}),
       Node("ClassDef", "Baz", 0, {}),
       Node("FunctionDef", "h", 5, {}) >>)

\* class Qux: def a(self): self.a;  def b(self): self.b
DisjointFile ==
    Parsed(<< Node("ClassDef", "Qux", 0, {}),
       Node("FunctionDef", "a", 1, {"a"}),
       Node("FunctionDef", "b", 1, {"b"}) >>)

FileSamples == {SyntaxError, NestedFile, DisjointFile}

SampleLog ==
    << <<"commit", " ", "1f">>,
       <<"Author:", " ", "ann", " ">>,
       <<" ", "fix">>,
       <<"-", "-", "-", " ", "a/f.py">>,
       <<"+", "+", "+", " ", "b/f.py">>,
       <<"-", "old">>,
       <<"+", "new">>,
       <<"+", "more">> >>

MainQueries ==
    {Query(FALSE, 0, <<>>), Query(TRUE, 128, <<>>), Query(TRUE, 0, SampleLog)}

\* "pkg.Foo" -> "pkg.Bar", "lib.Foo" -> "pkg.Bar", "pkg.Bar" -> "pkg.Foo"
SampleGraph ==
    [nodes |-> << GraphNode(TRUE, <<"pkg", "Foo">>),
                  GraphNode(TRUE, <<"pkg", "Bar">>),
                  GraphNode(TRUE, <<"lib", "Foo">>) >>,
     edges |-> {<<1, 2>>, <<3, 2>>, <<2, 1>>}]

EmptyGraph == [nodes |-> <<>>, edges |-> {}]

Unreadable == [readable |-> FALSE, graph |-> EmptyGraph]

Readable(g) == [readable |-> TRUE, graph |-> g]

DotOutcomes == {Unreadable, Readable(SampleGraph), Readable(EmptyGraph)}

PyreverseOutcomes == {"ok", "CalledProcessError", "FileNotFoundError"}

Argvs == {<<"prog">>, <<"prog", "repo">>, <<"prog", "repo", "out">>}

\* the values the variables of the other specifications keep
NoFan == [fan_in |-> 0, fan_out |-> 0]
ExtractIdle == xpc = "off" /\ xfile = SyntaxError /\ class_metrics = <<>>
GitIdle == gpc = "off" /\ query = Query(FALSE, 0, <<>>) /\ stats = ZeroStats
FanIdle ==
    /\ jpc = "off" /\ G = EmptyGraph /\ joinName = ""
    /\ joined = [console |-> NoFan, csv |-> NoFan]
MainIdle ==
    /\ argv = <<>> /\ files = <<>> /\ pc = "off"
    /\ repo_path = "unbound" /\ OUTPUT_FILE = "unbound"
    /\ fi = 1 /\ classes = <<>> /\ results = <<>> /\ lastQuery = <<>>
    /\ pyreverseRuns = 0 /\ graphFailed = FALSE /\ fan_data = <<>>
    /\ usage = FALSE /\ header = FALSE /\ console = <<>> /\ csv = NoCsv
    /\ error = NoError /\ exitStatus = <<>>

Init ==
    /\ argv \in Argvs
    /\ files \in SeqsUpTo(FileSamples, MaxFiles)
    /\ pc = "start"
    /\ repo_path = "unbound" /\ OUTPUT_FILE = "unbound"
    /\ fi = 1 /\ classes = <<>> /\ results = <<>> /\ lastQuery = <<>>
    /\ pyreverseRuns = 0 /\ graphFailed = FALSE /\ fan_data = <<>>
    /\ usage = FALSE /\ header = FALSE /\ console = <<>> /\ csv = NoCsv
    /\ error = NoError /\ exitStatus = <<>>
    /\ ExtractIdle /\ GitIdle /\ FanIdle

\* an exception nobody catches ends the process with a traceback and status 1
Abort(exc, at) ==
    /\ error' = Raised(exc, at)
    /\ pc' = "aborted"
    /\ exitStatus' = <<1>>

\* lines 210-216: sys.exit() without an argument ends the process with status 0
ParseArgs ==
    /\ pc = "start"
    /\ IF Len(argv) > 1
       THEN /\ repo_path' = argv[2]
            /\ OUTPUT_FILE' = IF Len(argv) > 2 THEN argv[3] ELSE "unbound"
            /\ pc' = "files"
            /\ UNCHANGED <<usage, exitStatus>>
       ELSE /\ usage' = TRUE
            /\ exitStatus' = <<0>>
            /\ pc' = "exited"
            /\ UNCHANGED <<repo_path, OUTPUT_FILE>>
    /\ UNCHANGED <<argv, files, fi, classes, results, lastQuery, pyreverseRuns, graphFailed,
                   fan_data, header, console, csv, error>>
    /\ UNCHANGED <<extractVars, gitVars, fanVars>>

\* lines 221-222: the next file of the outer loop is extracted
ExtractFile ==
    /\ pc = "files"
    /\ fi <= Len(files)
    /\ classes' = ExtractClassMetrics(files[fi], fi)
    /\ pc' = "classes"
    /\ UNCHANGED <<argv, files, repo_path, OUTPUT_FILE, fi, results, lastQuery,
                   pyreverseRuns, graphFailed, fan_data, usage, header, console, csv, error,
                   exitStatus>>
    /\ UNCHANGED <<extractVars, gitVars, fanVars>>

\* lines 223-226: one pass of the inner loop
MineClass ==
    /\ pc = "classes"
    /\ classes # <<>>
    /\ \E q \in MainQueries :
          /\ lastQuery' = <<q>>
          /\ IF GitStatsRaises(q) # "none"
             THEN /\ Abort(GitStatsRaises(q), "get_class_git_stats")
                  /\ UNCHANGED <<classes, results>>
             ELSE /\ results' = AppendResult(results, Update(Head(classes), GetClassGitStats(q)))
                  /\ classes' = Tail(classes)
                  /\ UNCHANGED <<pc, error, exitStatus>>
    /\ UNCHANGED <<argv, files, repo_path, OUTPUT_FILE, fi, pyreverseRuns, graphFailed, fan_data,
                   usage, header, console, csv>>
    /\ UNCHANGED <<extractVars, gitVars, fanVars>>

\* line 223 exhausted: back to line 221 for the next file
EndOfFile ==
    /\ pc = "classes"
    /\ classes = <<>>
    /\ fi' = fi + 1
    /\ pc' = "files"
    /\ UNCHANGED <<argv, files, repo_path, OUTPUT_FILE, classes, results, lastQuery,
                   pyreverseRuns, graphFailed, fan_data, usage, header, console, csv, error,
                   exitStatus>>
    /\ UNCHANGED <<extractVars, gitVars, fanVars>>

\* line 207 without check=True: a failed pyreverse is not raised and main goes on
RunPyreverse_unchecked ==
    /\ pc = "files"
    /\ fi > Len(files)
    /\ pyreverseRuns' = pyreverseRuns + 1
    /\ \E o \in PyreverseOutcomes : graphFailed' = (o # "ok")
    /\ pc' = "fan"
    /\ UNCHANGED <<argv, files, repo_path, OUTPUT_FILE, fi, classes, results, lastQuery,
                   fan_data, usage, header, console, csv, error, exitStatus>>
    /\ UNCHANGED <<extractVars, gitVars, fanVars>>

\* line 228 and lines 205-207: subprocess.run(..., check=True)
RunPyreverse ==
    /\ pc = "files"
    /\ fi > Len(files)
    /\ pyreverseRuns' = pyreverseRuns + 1
    /\ \E o \in PyreverseOutcomes :
          IF o = "ok"
          THEN pc' = "fan" /\ UNCHANGED <<graphFailed, error, exitStatus>>
          ELSE graphFailed' = TRUE /\ Abort(o, "run_pyreverse")
    /\ UNCHANGED <<argv, files, repo_path, OUTPUT_FILE, fi, classes, results, lastQuery,
                   fan_data, usage, header, console, csv>>
    /\ UNCHANGED <<extractVars, gitVars, fanVars>>

\* lines 229-231: read_dot raises when the file cannot be read
ComputeFan ==
    /\ pc = "fan"
    /\ \E d \in DotOutcomes :
          IF ~d.readable
          THEN /\ graphFailed' = TRUE
               /\ Abort("FileNotFoundError", "compute_fan_in_out")
               /\ UNCHANGED fan_data
          ELSE /\ fan_data' = ComputeFanInOut(d.graph)
               /\ pc' = "header"
               /\ UNCHANGED <<graphFailed, error, exitStatus>>
    /\ UNCHANGED <<argv, files, repo_path, OUTPUT_FILE, fi, classes, results, lastQuery,
                   pyreverseRuns, usage, header, console, csv>>
    /\ UNCHANGED <<extractVars, gitVars, fanVars>>

\* lines 234-237
PrintHeader ==
    /\ pc = "header"
    /\ header' = TRUE
    /\ pc' = "rows"
    /\ UNCHANGED <<argv, files, repo_path, OUTPUT_FILE, fi, classes, results, lastQuery,
                   pyreverseRuns, graphFailed, fan_data, usage, console, csv, error, exitStatus>>
    /\ UNCHANGED <<extractVars, gitVars, fanVars>>

\* lines 238-241: one pass of the printing loop
PrintRow ==
    /\ pc = "rows"
    /\ Len(console) < Len(results)
    /\ console' = Append(console, ConsoleRow(results[Len(console) + 1], fan_data))
    /\ UNCHANGED <<argv, files, pc, repo_path, OUTPUT_FILE, fi, classes, results,
                   lastQuery, pyreverseRuns, graphFailed, fan_data, usage, header, csv, error,
                   exitStatus>>
    /\ UNCHANGED <<extractVars, gitVars, fanVars>>

\* line 244: OUTPUT_FILE + ".csv" is evaluated first (UnboundLocalError when the
\* local was never assigned), then export_to_csv writes the file; main returns
ExportCsv ==
    /\ pc = "rows"
    /\ Len(console) = Len(results)
    /\ IF OUTPUT_FILE = "unbound"
       THEN Abort("UnboundLocalError", "main") /\ UNCHANGED csv
       ELSE /\ csv' = [exists |-> TRUE, rows |-> ExportToCsv(results, fan_data)]
            /\ pc' = "done"
            /\ exitStatus' = <<0>>
            /\ UNCHANGED error
    /\ UNCHANGED <<argv, files, repo_path, OUTPUT_FILE, fi, classes, results, lastQuery,
                   pyreverseRuns, graphFailed, fan_data, usage, header, console>>
    /\ UNCHANGED <<extractVars, gitVars, fanVars>>

Next ==
    \/ ParseArgs
    \/ ExtractFile
    \/ MineClass
    \/ EndOfFile
    \/ RunPyreverse
    \/ ComputeFan
    \/ PrintHeader
    \/ PrintRow
    \/ ExportCsv

Spec == Init /\ [][Next]_vars

(***************************************************************************)
(* extract_class_metrics on its own: every class body of up to MaxBody     *)
(* statements over two method names and two attribute names, and the       *)
(* sample files.                                                            *)
(***************************************************************************)
MethodNameSamples == {"f", "g"}

AttrSamples == {"x", "y"}

BodyStmts ==
    {Node("FunctionDef", n, 1, a) : n \in MethodNameSamples, a \in SUBSET AttrSamples}
        \cup {Node("Assign", "", 1, {})}

FlatClasses ==
    {Parsed(<<Node("ClassDef", "A", 0, {})>> \o body) : body \in SeqsUpTo(BodyStmts, MaxBody)}

\* class A: def f(self): (def inner(): self.x);  def g(self): self.x;  v = 1
InnerAccessFile ==
    Parsed(<< Node("ClassDef", "A", 0, {}),
              Node("FunctionDef", "f", 1, {}),
              Node("FunctionDef", "inner", 2, {"x"}),
              Node("FunctionDef", "g", 1, {"x"}),
              Node("Assign", "", 1, {}) >>)

ExtractInputs == FlatClasses \cup FileSamples \cup {InnerAccessFile}

InitExtract ==
    /\ xpc = "pending"
    /\ xfile \in ExtractInputs
    /\ class_metrics = <<>>
    /\ MainIdle /\ GitIdle /\ FanIdle

ExtractCall ==
    /\ xpc = "pending"
    /\ class_metrics' = ExtractClassMetrics(xfile, 1)
    /\ xpc' = "returned"
    /\ UNCHANGED <<xfile, mainVars, gitVars, fanVars>>

SpecExtract == InitExtract /\ [][ExtractCall]_vars

(***************************************************************************)
(* get_class_git_stats on its own: every history text of up to MaxLines    *)
(* lines drawn from LineSamples, and the failing queries.                   *)
(***************************************************************************)
LineSamples ==
    { <<"commit", " ", "1f">>,
      <<" ", "revert", " ", "commit", " ", "commit">>,
      <<"Author:", " ", "ann", " ">>,
      <<"Author:", "bob">>,
      <<"+", "new">>,
      <<"+", "+", "i">>,
      <<"+", "commit">>,
      <<"+", "+", "+", " ", "b/f.py">>,
      <<"-", "old">>,
      <<"-", "-", "-", " ", "a/f.py">>,
      <<" ", "ctx">> }

GitInputs ==
    {Query(FALSE, 0, <<>>), Query(TRUE, 128, <<>>), Query(TRUE, 1, <<>>)}
        \cup {Query(TRUE, 0, text) : text \in SeqsUpTo(LineSamples, MaxLines)}

InitGit ==
    /\ gpc = "pending"
    /\ query \in GitInputs
    /\ stats = ZeroStats
    /\ MainIdle /\ ExtractIdle /\ FanIdle

GitCall ==
    /\ gpc = "pending"
    /\ IF GitStatsRaises(query) # "none"
       THEN gpc' = "raised" /\ UNCHANGED stats
       ELSE gpc' = "returned" /\ stats' = GetClassGitStats(query)
    /\ UNCHANGED <<query, mainVars, extractVars, fanVars>>

SpecGit == InitGit /\ [][GitCall]_vars

(***************************************************************************)
(* compute_fan_in_out and the join on its own: every graph of up to        *)
(* MaxNodes distinct nodes and up to MaxEdges edges, joined with a row of  *)
(* each class name.                                                         *)
(***************************************************************************)
NodeNameSamples ==
    { GraphNode(TRUE, <<"pkg", "Foo">>),
      GraphNode(TRUE, <<"lib", "Foo">>),
      GraphNode(FALSE, <<"Bar">>),
      GraphNode(TRUE, <<"pkg", "mod", "Baz">>) }

\* the orders in which up to MaxNodes distinct node identifiers can stand in G.nodes
NodeSeqs ==
    {ns \in SeqsUpTo(NodeNameSamples, MaxNodes) :
        \A i, j \in 1..Len(ns) : i # j => ns[i] # ns[j]}

RECURSIVE EdgeSets(_, _)
\* the sets of at most k of the pairs in P
EdgeSets(P, k) ==
    IF k = 0 THEN {{}}
    ELSE LET fewer == EdgeSets(P, k - 1)
         IN  fewer \cup {E \cup {e} : E \in fewer, e \in P}

\* the sets of at most MaxEdges edges between node positions
EdgeChoices == EdgeSets((1..MaxNodes) \X (1..MaxNodes), MaxEdges)

\* every edge joins two nodes of the graph
Graphs ==
    {g \in [nodes : NodeSeqs, edges : EdgeChoices] :
        \A e \in g.edges : e[1] <= Len(g.nodes) /\ e[2] <= Len(g.nodes)}

JoinNames == {"Foo", "Bar", "Qux"}

InitFan ==
    /\ jpc = "pending"
    /\ G \in Graphs
    /\ joinName \in JoinNames
    /\ joined = [console |-> NoFan, csv |-> NoFan]
    /\ MainIdle /\ ExtractIdle /\ GitIdle

JoinCall ==
    /\ jpc = "pending"
    /\ joined' = [console |-> ConsoleFan(ComputeFanInOut(G), joinName),
                  csv |-> CsvFan(ComputeFanInOut(G), joinName)]
    /\ jpc' = "joined"
    /\ UNCHANGED <<G, joinName, mainVars, extractVars, gitVars>>

SpecFan == InitFan /\ [][JoinCall]_vars

(***************************************************************************)
(* Properties of extract_class_metrics (checked under SpecExtract)         *)
(***************************************************************************)
\* the k-th class of xfile in the order the records are returned
ClassAt(k) == ClassNodes(xfile.tree)[k]

\* the pairs of distinct methods of class c whose attribute sets share an element
SharingPairs(ast, c) ==
    {p \in IndexPairs(Len(Methods(ast, c))) :
        WalkedAttrs(ast, Methods(ast, c)[p[1]])
            \cap WalkedAttrs(ast, Methods(ast, c)[p[2]]) # {}}

\* the pairs of distinct methods of class c whose attribute sets share nothing
DisjointPairs(ast, c) ==
    {p \in IndexPairs(Len(Methods(ast, c))) :
        WalkedAttrs(ast, Methods(ast, c)[p[1]])
            \cap WalkedAttrs(ast, Methods(ast, c)[p[2]]) = {}}

\* C1: for every class, LCOM = max(0, disjoint - shared) where disjoint and
\* shared count ALL unordered pairs of the class's methods (a method without
\* self attributes has the empty set and is disjoint from every other
\* method), so that disjoint + shared = n(n-1)/2 for n the reported method count.
C1_LcomOverAllMethodPairs ==
    xpc = "returned" =>
        \A k \in 1..Len(class_metrics) :
            LET n == class_metrics[k].methods
                disjoint == Cardinality(DisjointPairs(xfile.tree, ClassAt(k)))
                shared == Cardinality(SharingPairs(xfile.tree, ClassAt(k)))
            IN  /\ disjoint + shared = (n * (n - 1)) \div 2
                /\ class_metrics[k].lcom = Max(0, disjoint - shared)

\* C2: for every class, TCC = connected / total (to 3 decimals) with
\* total = n(n-1)/2 for n the reported method count and connected the number
\* of method pairs sharing an attribute; 1.0 by convention only when n < 2.
\* In particular two methods with disjoint sets (empty ones included) give 0.0.
C2_TccOverAllMethodPairs ==
    xpc = "returned" =>
        \A k \in 1..Len(class_metrics) :
            LET n == class_metrics[k].methods
                total == (n * (n - 1)) \div 2
                connected == Cardinality(SharingPairs(xfile.tree, ClassAt(k)))
            IN  class_metrics[k].tcc =
                    IF n < 2 THEN 1000 ELSE PyRound(connected, total, 1000)

\* C8: a class with 0 or 1 methods (direct function definitions of its body,
\* which is the reported method count) has LCOM = 0 and TCC = 1.0, whatever
\* the single method accesses.
C8_FewMethods ==
    xpc = "returned" =>
        \A k \in 1..Len(class_metrics) :
            LET direct == {i \in 1..Len(xfile.tree) :
                              /\ xfile.tree[i].parent = ClassAt(k)
                              /\ xfile.tree[i].kind = "FunctionDef"}
            IN  /\ class_metrics[k].methods = Cardinality(direct)
                /\ Cardinality(direct) <= 1 =>
                       class_metrics[k].lcom = 0 /\ class_metrics[k].tcc = 1000

\* a class whose only method accesses self attributes, next to other statements
C8_Witness ==
    /\ xpc = "returned"
    /\ \E k \in 1..Len(class_metrics) :
          /\ class_metrics[k].methods = 1
          /\ class_metrics[k].loc > 1
          /\ WalkedAttrs(xfile.tree, Methods(xfile.tree, ClassAt(k))[1]) # {}

(***************************************************************************)
(* Properties of get_class_git_stats (checked under SpecGit)               *)
(***************************************************************************)
\* the positions of the text that hold the commit marker
CommitMarks(text) ==
    UNION {{<<i, j>> : j \in {j \in 1..Len(text[i]) : text[i][j] = "commit"}} :
              i \in 1..Len(text)}

\* the lines that start with the sign but not with three of them
SignedLines(text, sign) ==
    {i \in 1..Len(text) :
        /\ Len(text[i]) >= 1 /\ text[i][1] = sign
        /\ ~(Len(text[i]) >= 3 /\ text[i][2] = sign /\ text[i][3] = sign)}

\* C9: every result has nlc = 0 when changes = 0 and nlc = the quotient
\* (lines_added + lines_deleted) / changes rounded to 2 decimals otherwise;
\* on success changes counts the commit markers of the output, lines_added the
\* lines starting with '+' but not '+++', lines_deleted those starting with
\* '-' but not '---'; on the caught failure everything is zero.
C9_NlcDefinition ==
    gpc = "returned" =>
        LET churn == stats.lines_added + stats.lines_deleted
            off == 100 * churn - stats.nlc * stats.changes
        IN  /\ (query.started /\ query.returncode = 0) =>
                  /\ stats.changes = Cardinality(CommitMarks(query.output))
                  /\ stats.lines_added = Cardinality(SignedLines(query.output, "+"))
                  /\ stats.lines_deleted = Cardinality(SignedLines(query.output, "-"))
            /\ ~(query.started /\ query.returncode = 0) => stats = ZeroStats
            /\ stats.changes = 0 => stats.nlc = 0
            /\ stats.changes > 0 =>
                  /\ 2 * off <= stats.changes
                  /\ 2 * (0 - off) <= stats.changes

\* a history with several commit markers, a '+++' header, an added line and
\* a quotient that is not a whole number
C9_Witness ==
    /\ gpc = "returned"
    /\ stats.changes > 1
    /\ stats.lines_added > 0
    /\ stats.nlc % 100 # 0
    /\ \E i \in 1..Len(query.output) : StartsWith(query.output[i], <<"+", "+", "+">>)

(***************************************************************************)
(* Properties of the fan-in / fan-out join (checked under SpecFan)         *)
(***************************************************************************)
\* the bare class name of a node identifier: quotes off, last dotted segment
BareName(node) == node.segs[Len(node.segs)]

\* the positions of the nodes of G whose bare name is the row's class name
Matching == {v \in 1..Len(G.nodes) : BareName(G.nodes[v]) = joinName}

\* the fan columns node v's own edges give
OwnCounts(v) ==
    [fan_in |-> Cardinality({u \in 1..Len(G.nodes) : <<u, v>> \in G.edges}),
     fan_out |-> Cardinality({w \in 1..Len(G.nodes) : <<v, w>> \in G.edges})]

\* C4: for EVERY node of the graph, a row whose class name is that node's bare
\* name carries that node's predecessor and successor counts, in the console
\* table and in the CSV; a row matching no node carries 0 and 0.
C4_EveryNodeOwnCounts ==
    jpc = "joined" =>
        /\ \A v \in Matching :
              joined.console = OwnCounts(v) /\ joined.csv = OwnCounts(v)
        /\ Matching = {} => joined.console = NoFan /\ joined.csv = NoFan

\* C4 as amended: the row carries the counts of the LAST node, in the graph's
\* node order, whose bare name is the row's class name (so those of the node
\* itself when only one node has that bare name); a row matching no node
\* carries 0 and 0; console table and CSV alike.
C4_LastNodeCounts ==
    jpc = "joined" =>
        /\ \A v \in Matching :
              (\A w \in Matching : w <= v) =>
                  joined.console = OwnCounts(v) /\ joined.csv = OwnCounts(v)
        /\ Matching = {} => joined.console = NoFan /\ joined.csv = NoFan

\* two nodes share the row's bare name and differ in their counts; the row
\* has the counts of the later one
C4_Witness ==
    /\ jpc = "joined"
    /\ \E v, w \in Matching :
          /\ v < w
          /\ OwnCounts(v) # OwnCounts(w)
          /\ OwnCounts(w).fan_in > 0
          /\ joined.csv = OwnCounts(w)

(***************************************************************************)
(* Properties of main() (checked under Spec)                               *)
(***************************************************************************)
RECURSIVE ClassCount(_)
\* the ClassDef nodes of the files from position f on, counted
ClassCount(f) ==
    IF f > Len(files) THEN 0
    ELSE (IF files[f].parsed THEN Len(ClassNodes(files[f].tree)) ELSE 0) + ClassCount(f + 1)

RECURSIVE IsNestedIn(_, _, _)
\* whether node b lies inside node a
IsNestedIn(ast, b, a) ==
    /\ b # 0
    /\ ast[b].parent = a \/ IsNestedIn(ast, ast[b].parent, a)

\* the ClassDef node of its file that a row stands for (class names are
\* unique within each file)
NodeOf(r) ==
    CHOOSE n \in 1..Len(files[r.filename].tree) :
        /\ files[r.filename].tree[n].kind = "ClassDef"
        /\ files[r.filename].tree[n].name = r.class

SameRecord(a, b) == a.filename = b.filename /\ a.class = b.class

\* C3: whatever way the history query fails (non-zero exit, or the command
\* not starting at all), get_class_git_stats returns the zero-valued result
\* and the run goes on with the next class.
C3_QueryFailureGivesZeros ==
    \A k \in 1..Len(lastQuery) :
        (~lastQuery[k].started \/ lastQuery[k].returncode # 0) =>
            /\ error.at # "get_class_git_stats"
            /\ results # <<>>
            /\ results[Len(results)].changes = 0
            /\ results[Len(results)].lines_added = 0
            /\ results[Len(results)].lines_deleted = 0
            /\ results[Len(results)].authors = {}
            /\ results[Len(results)].nlc = 0

\* C5: without argument 1, main prints the usage line and ends at once with
\* a non-zero exit status, with no extraction, query, graph generation or CSV.
C5_UsageExitNonZero ==
    (Len(argv) < 2 /\ pc # "start") =>
        /\ usage
        /\ pc = "exited"
        /\ Len(exitStatus) = 1 /\ exitStatus[1] # 0
        /\ results = <<>> /\ lastQuery = <<>> /\ pyreverseRuns = 0
        /\ console = <<>> /\ ~csv.exists

\* C6: graph generation starts only after every file is extracted and every
\* history query has returned, it is never started twice, and once pyreverse
\* has failed or the .dot file could not be read the run is aborted with no
\* table row printed and no CSV file.
C6_GraphFailureFatal ==
    /\ pyreverseRuns <= 1
    /\ pyreverseRuns > 0 =>
          /\ fi > Len(files) /\ classes = <<>>
          /\ Len(results) = ClassCount(1)
          /\ error.at # "get_class_git_stats"
    /\ graphFailed =>
          /\ pc = "aborted"
          /\ console = <<>>
          /\ ~csv.exists

\* the .dot file could not be read after classes were mined
C6_Witness ==
    /\ graphFailed
    /\ error.at = "compute_fan_in_out"
    /\ Len(results) > 1

\* C7: console table and CSV hold one row per class record, in extraction
\* order and in the same order as each other: files in discovery order, an
\* outer class before every class nested in it, nothing dropped, duplicated
\* or reordered between extraction, history attachment and reporting.
C7_RowsInExtractionOrder ==
    /\ \A i, j \in 1..Len(results) :
          i < j =>
              /\ results[i].filename <= results[j].filename
              /\ ~SameRecord(results[i], results[j])
              /\ results[i].filename = results[j].filename =>
                     ~IsNestedIn(files[results[i].filename].tree,
                                 NodeOf(results[i]), NodeOf(results[j]))
    /\ pc \in {"fan", "header", "rows", "done"} => Len(results) = ClassCount(1)
    /\ Len(console) <= Len(results)
    /\ \A k \in 1..Len(console) : SameRecord(console[k], results[k])
    /\ csv.exists =>
          /\ Len(csv.rows) = Len(results)
          /\ \A k \in 1..Len(csv.rows) : SameRecord(csv.rows[k], results[k])
    /\ pc = "done" => Len(console) = Len(results) /\ csv.exists

\* a finished run over the file with the nested classes followed by another file
C7_Witness ==
    /\ pc = "done"
    /\ Len(files) = 2 /\ files[1] = NestedFile /\ files[2] = DisjointFile
    /\ Len(csv.rows) = 4 /\ Len(console) = 4
    /\ console[3].class = "Bar"

\* C10: a run with argument 1 that has printed the whole console table also
\* writes the CSV file with the same rows, whether or not argument 2 was given.
C10_TableImpliesCsv ==
    (Len(argv) > 1 /\ pc \in {"done", "aborted", "exited"}
        /\ header /\ Len(console) = Len(results)) =>
            /\ csv.exists
            /\ Len(csv.rows) = Len(console)

====
